---- MODULE Spec2Model ----
(***************************************************************************)
(* Model of the file-based blog store of go-react-blog                     *)
(* (backend/storage/blog_storage.go): one directory per post under the     *)
(* data root, holding metadata.json and content.md, guarded by a single    *)
(* sync.RWMutex.  Every store method is a sequence of steps of the calling *)
(* goroutine: lock, filesystem calls, unlock.                              *)
(***************************************************************************)
EXTENDS Integers, Sequences, FiniteSets, TLC

\* ------------------------------------------------------------------ bounds
NThreads == 2       \* goroutines calling the store
MaxCalls == 3       \* store calls in a run
MaxFaults == 1      \* filesystem calls that fail in a run
TicksPerSec == 2    \* clock resolution: ticks of time.Now() per RFC3339 second

Threads == 1..NThreads

\* ------------------------------------------------------------------ state
VARIABLES
  fs,       \* the data root: Names -> directory entry
  clock,    \* the last value time.Now() returned
  nextId,   \* the next value uuid.New() returns
  mu,       \* the RWMutex: the writer holding it (0: none) and the readers
  pc,       \* per goroutine: where it is in its store call
  loc,      \* per goroutine: the call, its locals and its result
  calls,    \* store calls started
  faults    \* filesystem calls that failed

vars == <<fs, clock, nextId, mu, pc, loc, calls, faults>>

\* ------------------------------------------------------- strings as tuples
\* A Go string is a tuple of one-character strings; "" is << >>.
UpperCase == <<"A", "B", "N">>
LowerCase == <<"a", "b", "n">>
Digits == {"0", "1"}

\* strings.ToLower on one rune
ToLowerChar(c) ==
  IF \E i \in 1..Len(UpperCase) : UpperCase[i] = c
  THEN LowerCase[CHOOSE i \in 1..Len(UpperCase) : UpperCase[i] = c]
  ELSE c

\* strings.ReplaceAll(s, old, new) for a one-rune old and new
ReplaceChar(s, old, new) == [i \in 1..Len(s) |-> IF s[i] = old THEN new ELSE s[i]]

\* the rune filter of slugify: keep a-z, 0-9 and '-'
IsSlugChar(c) ==
  \/ \E i \in 1..Len(LowerCase) : LowerCase[i] = c
  \/ c \in Digits
  \/ c = "-"

RECURSIVE KeepSlugChars(_)
KeepSlugChars(s) ==
  IF s = << >> THEN << >>
  ELSE IF IsSlugChar(Head(s)) THEN <<Head(s)>> \o KeepSlugChars(Tail(s))
  ELSE KeepSlugChars(Tail(s))

\* strings.ReplaceAll(s, "--", "-"): one left-to-right pass over
\* non-overlapping matches
RECURSIVE ReplaceDoubleHyphen(_)
ReplaceDoubleHyphen(s) ==
  IF Len(s) < 2 THEN s
  ELSE IF s[1] = "-" /\ s[2] = "-" THEN <<"-">> \o ReplaceDoubleHyphen(Tail(Tail(s)))
  ELSE <<s[1]>> \o ReplaceDoubleHyphen(Tail(s))

RECURSIVE TrimLeftHyphen(_)
TrimLeftHyphen(s) ==
  IF s # << >> /\ Head(s) = "-" THEN TrimLeftHyphen(Tail(s)) ELSE s

RECURSIVE TrimRightHyphen(_)
TrimRightHyphen(s) ==
  IF s # << >> /\ s[Len(s)] = "-" THEN TrimRightHyphen(SubSeq(s, 1, Len(s) - 1)) ELSE s

\* strings.Trim(s, "-")
TrimHyphen(s) == TrimRightHyphen(TrimLeftHyphen(s))

slugify(title) ==
  LET lower == [i \in 1..Len(title) |-> ToLowerChar(title[i])]
      hyph == ReplaceChar(ReplaceChar(lower, " ", "-"), "_", "-")
  IN TrimHyphen(ReplaceDoubleHyphen(KeepSlugChars(hyph)))

\* ------------------------------------------------------------- timestamps
\* time.Time is a tick count; Format(time.RFC3339) keeps whole seconds.
FormatRFC3339(t) == t \div TicksPerSec
ParseRFC3339(s) == s * TicksPerSec

\* -------------------------------------------------------------- the inputs
Root == << >>                        \* filepath.Join(dataDir, "") is dataDir
SlugA == <<"a">>
SlugB == <<"b">>
SlugN == <<"n">>
NameOrder == <<SlugA, SlugB, SlugN>>  \* os.ReadDir returns entries sorted by name
SubDirs == {NameOrder[i] : i \in 1..Len(NameOrder)}
Names == SubDirs \cup {Root}

Titles == {<<"A">>, <<"!">>}
Contents == {"c1"}
ReqSlugs == {Root, SlugB}
LookupSlugs == {SlugA, SlugB}

Nil == << >>                         \* a nil pointer of UpdateBlogRequest
Some(v) == <<v>>

NoUpdates ==
  [Title |-> Nil, Content |-> Nil, MetaName |-> Nil, MetaDescription |-> Nil,
   Slug |-> Nil, Published |-> Nil]

UpdateRequests ==
  { [NoUpdates EXCEPT !.Title = Some(<<"N">>)],
    [NoUpdates EXCEPT !.Slug = Some(SlugA)],
    [NoUpdates EXCEPT !.Slug = Some(SlugB)],
    [NoUpdates EXCEPT !.Content = Some("c2"), !.Published = Some(TRUE)] }

\* models.Blog
ZeroBlog ==
  [ID |-> 0, Title |-> << >>, Content |-> "", AuthorName |-> "", AuthorUsername |-> "",
   MetaName |-> << >>, MetaDescription |-> << >>, Slug |-> << >>,
   Created |-> 0, Updated |-> 0, Published |-> FALSE]

CreateInputs ==
  { [ZeroBlog EXCEPT !.Title = t, !.Content = c, !.Slug = s] :
      t \in Titles, c \in Contents, s \in ReqSlugs } \
  { [ZeroBlog EXCEPT !.Title = <<"!">>, !.Content = c, !.Slug = SlugB] : c \in Contents }

\* ------------------------------------------------------------- filesystem
\* One entry per path directly under the data root (and the root itself):
\* whether the directory exists, and its two files as a tuple of length 0
\* (no file) or 1; image is the uploaded picture the create handler puts
\* next to them.
AbsentDir == [exists |-> FALSE, meta |-> << >>, content |-> << >>, image |-> << >>]
EmptyDir == [exists |-> TRUE, meta |-> << >>, content |-> << >>, image |-> << >>]
EmptyFS == [n \in Names |-> IF n = Root THEN EmptyDir ELSE AbsentDir]

\* The text of a metadata.json file: whether it is a JSON object (json), the
\* keys whose value is missing, of the wrong JSON type or not parseable
\* (bad), and the values of the other keys.
\* the map saveBlog marshals into metadata.json
Metadata(blog, slug) ==
  [json |-> TRUE, bad |-> {},
   id |-> blog.ID, slug |-> slug, title |-> blog.Title,
   author_name |-> blog.AuthorName, author_username |-> blog.AuthorUsername,
   meta_name |-> blog.MetaName, meta_description |-> blog.MetaDescription,
   created |-> FormatRFC3339(blog.Created), updated |-> FormatRFC3339(blog.Updated),
   published |-> blog.Published]

\* the keys loadAllBlogs reads with an unchecked type assertion
AssertedKeys ==
  {"title", "author_name", "author_username", "meta_name", "meta_description",
   "slug", "published"}

\* the os.Stat tests of loadAllBlogs: a subdirectory holding both files
IsBlogDir(entry) == entry.exists /\ entry.content # << >> /\ entry.meta # << >>

\* json.Unmarshal succeeds on the metadata of a blog directory
ParsesJSON(entry) == IsBlogDir(entry) /\ entry.meta[1].json

\* the "continue" statements of the scan loop: the directory is skipped
SkipsDir(entry) == ~ParsesJSON(entry) \/ "id" \in entry.meta[1].bad

\* metadata[key].(string) / .(bool) on a missing or wrongly typed value: the
\* scan panics
PanicsOnDir(entry) ==
  /\ ~SkipsDir(entry)
  /\ entry.meta[1].bad \cap AssertedKeys # {}

\* the number of time.Now() fallbacks the timestamp parsing of one directory
\* takes (it runs before the id is looked at)
NowCalls(entry) ==
  IF ParsesJSON(entry)
  THEN Cardinality(entry.meta[1].bad \cap {"created", "updated"})
  ELSE 0

\* a decoding that stamps every post with the time of the scan
DecodeBlogStamped(entry, now) ==
  LET m == entry.meta[1]
  IN [ID |-> m.id, Title |-> m.title, Content |-> entry.content[1],
      AuthorName |-> m.author_name, AuthorUsername |-> m.author_username,
      MetaName |-> m.meta_name, MetaDescription |-> m.meta_description,
      Slug |-> m.slug, Created |-> now + 1, Updated |-> now + 1,
      Published |-> m.published]

\* the models.Blog loadAllBlogs builds from one directory, time.Now() having
\* last returned now
DecodeBlog(entry, now) ==
  LET m == entry.meta[1]
      created == IF "created" \in m.bad THEN now + 1 ELSE ParseRFC3339(m.created)
      updated == IF "updated" \in m.bad THEN now + NowCalls(entry)
                 ELSE ParseRFC3339(m.updated)
  IN [ID |-> m.id, Title |-> m.title, Content |-> entry.content[1],
      AuthorName |-> m.author_name, AuthorUsername |-> m.author_username,
      MetaName |-> m.meta_name, MetaDescription |-> m.meta_description,
      Slug |-> m.slug, Created |-> created, Updated |-> updated,
      Published |-> m.published]

\* the scan loop of loadAllBlogs, in os.ReadDir order
RECURSIVE ScanDirs(_, _, _)
ScanDirs(f, i, now) ==
  IF i > Len(NameOrder) THEN << >>
  ELSE LET entry == f[NameOrder[i]]
           rest == ScanDirs(f, i + 1, now + NowCalls(entry))
       IN IF SkipsDir(entry) THEN rest ELSE <<DecodeBlog(entry, now)>> \o rest

\* the scan loop panics on some directory
ScanPanics(f) == \E n \in SubDirs : PanicsOnDir(f[n])

\* the reading of the clock after loadAllBlogs
RECURSIVE ScanClock(_, _, _)
ScanClock(f, i, now) ==
  IF i > Len(NameOrder) THEN now
  ELSE IF PanicsOnDir(f[NameOrder[i]]) THEN now + NowCalls(f[NameOrder[i]])
  ELSE ScanClock(f, i + 1, now + NowCalls(f[NameOrder[i]]))

\* sort.Slice with less(i, j) = blogs[i].Created.After(blogs[j].Created);
\* for slices of at most 12 elements Go runs an insertion sort
RECURSIVE InsertBlog(_, _)
InsertBlog(s, b) ==
  IF s = << >> THEN <<b>>
  ELSE IF b.Created > s[Len(s)].Created
       THEN Append(InsertBlog(SubSeq(s, 1, Len(s) - 1), b), s[Len(s)])
       ELSE Append(s, b)

RECURSIVE SortByCreated(_)
SortByCreated(s) ==
  IF Len(s) <= 1 THEN s
  ELSE InsertBlog(SortByCreated(SubSeq(s, 1, Len(s) - 1)), s[Len(s)])

loadAllBlogs(f) == SortByCreated(ScanDirs(f, 1, clock))
ClockAfterLoad(f) == ScanClock(f, 1, clock)

\* the "for _, blog := range blogs { if blog.Slug == slug" lookups
HasSlug(blogs, slug) == \E i \in 1..Len(blogs) : blogs[i].Slug = slug
FindBySlug(blogs, slug) ==
  blogs[CHOOSE i \in 1..Len(blogs) :
          /\ blogs[i].Slug = slug
          /\ \A j \in 1..(i - 1) : blogs[j].Slug # slug]

\* os.Rename(oldDir, newDir) on directories: the cases in which it succeeds
RenameOk(f, old, new) ==
  /\ old # Root /\ new # Root
  /\ f[old].exists
  /\ f[new].exists => f[new] = EmptyDir

RenameDir(f, old, new) == [f EXCEPT ![new] = f[old], ![old] = AbsentDir]

\* os.RemoveAll(blogDir)
RemoveAll(f, n) ==
  IF n = Root THEN [m \in Names |-> AbsentDir] ELSE [f EXCEPT ![n] = AbsentDir]

\* -------------------------------------------------------------- the calls
NoOp == [kind |-> "none", slug |-> << >>, blog |-> ZeroBlog, updates |-> NoUpdates]
NoRet == [err |-> "", val |-> << >>]
\* the fields of the multipart form of a create request, and what the image
\* part is: absent, a picture, a file ValidateImageFile rejects, a file
\* image.Decode rejects
NoReq == [Title |-> << >>, Content |-> "", Slug |-> << >>, Image |-> "none"]
NoLoc ==
  [op |-> NoOp, blog |-> ZeroBlog, dir |-> << >>, ret |-> NoRet, pre |-> EmptyFS,
   fault |-> FALSE, req |-> NoReq, status |-> 0, message |-> ""]

ErrNotFound == "blog not found"
ErrSlugExists == "slug already exists"
ErrIO == "io error"
ErrPanic == "panic"   \* the call does not return: it panics, the deferred unlock runs

Init ==
  /\ fs = EmptyFS
  /\ clock = 1
  /\ nextId = 1
  /\ mu = [writer |-> 0, readers |-> {}]
  /\ pc = [t \in Threads |-> "idle"]
  /\ loc = [t \in Threads |-> NoLoc]
  /\ calls = 0
  /\ faults = 0

\* sync.RWMutex: RLock succeeds when no writer holds the mutex, Lock when
\* nobody holds it
CanRLock == mu.writer = 0
\* a Lock that does not wait for the readers to leave
CanLockIgnoringReaders == mu.writer = 0
CanLock == mu.writer = 0 /\ mu.readers = {}

CanFail == faults < MaxFaults

\* ---------------------------------------------------------------- readers
\* GetAllBlogs: s.mu.RLock()
GetAllBlogsLock(t) ==
  /\ pc[t] = "idle"
  /\ CanRLock
  /\ calls < MaxCalls
  /\ calls' = calls + 1
  /\ mu' = [mu EXCEPT !.readers = @ \cup {t}]
  /\ pc' = [pc EXCEPT ![t] = "scan"]
  /\ loc' = [loc EXCEPT ![t] = [NoLoc EXCEPT !.op.kind = "GetAllBlogs", !.pre = fs]]
  /\ UNCHANGED <<fs, clock, nextId, faults>>

\* GetBlogBySlug: s.mu.RLock()
GetBlogBySlugLock(t, slug) ==
  /\ pc[t] = "idle"
  /\ CanRLock
  /\ calls < MaxCalls
  /\ calls' = calls + 1
  /\ mu' = [mu EXCEPT !.readers = @ \cup {t}]
  /\ pc' = [pc EXCEPT ![t] = "scan"]
  /\ loc' = [loc EXCEPT ![t] =
       [NoLoc EXCEPT !.op.kind = "GetBlogBySlug", !.op.slug = slug, !.pre = fs]]
  /\ UNCHANGED <<fs, clock, nextId, faults>>

\* what GetBlogBySlug returns on the data root f
GetBlogBySlugResult(f, slug) ==
  LET blogs == loadAllBlogs(f)
  IN IF ScanPanics(f) THEN [err |-> ErrPanic, val |-> << >>]
     ELSE IF HasSlug(blogs, slug)
     THEN [err |-> "", val |-> <<FindBySlug(blogs, slug)>>]
     ELSE [err |-> ErrNotFound, val |-> << >>]

\* what GetAllBlogs returns on the data root f
GetAllBlogsResult(f) ==
  IF ScanPanics(f) THEN [err |-> ErrPanic, val |-> << >>]
  ELSE [err |-> "", val |-> loadAllBlogs(f)]

\* the body of GetAllBlogs and GetBlogBySlug under the read lock
ReadScan(t) ==
  /\ pc[t] = "scan"
  /\ \/ /\ loc' = [loc EXCEPT ![t].ret =
              IF loc[t].op.kind = "GetAllBlogs"
              THEN GetAllBlogsResult(fs)
              ELSE GetBlogBySlugResult(fs, loc[t].op.slug)]
        /\ clock' = ClockAfterLoad(fs)
        /\ UNCHANGED faults
     \/ /\ CanFail                      \* os.ReadDir fails
        /\ faults' = faults + 1
        /\ loc' = [loc EXCEPT ![t].ret = [err |-> ErrIO, val |-> << >>],
                              ![t].fault = TRUE]
        /\ UNCHANGED clock
  /\ pc' = [pc EXCEPT ![t] = "runlock"]
  /\ UNCHANGED <<fs, nextId, mu, calls>>

\* defer s.mu.RUnlock()
ReadUnlock(t) ==
  /\ pc[t] = "runlock"
  /\ mu' = [mu EXCEPT !.readers = @ \ {t}]
  /\ pc' = [pc EXCEPT ![t] = "idle"]
  /\ loc' = [loc EXCEPT ![t] = NoLoc]
  /\ UNCHANGED <<fs, clock, nextId, calls, faults>>

\* ---------------------------------------------------------------- writers
\* fmt.Sprintf("Read about %s", blog.Title)
ReadAbout(title) == <<"R", "e", "a", "d", " ", "a", "b", "o", "u", "t", " ">> \o title

\* a CreateBlog that derives the slug from the title even when one is supplied
PrepareCreateTitleSlug(blog, id, now) ==
  [blog EXCEPT !.ID = id, !.Created = now, !.Updated = now,
               !.AuthorName = IF @ = "" THEN "John Doe" ELSE @,
               !.AuthorUsername = IF @ = "" THEN "johndoe" ELSE @,
               !.MetaName = IF @ = << >> THEN blog.Title ELSE @,
               !.MetaDescription = IF @ = << >> THEN ReadAbout(blog.Title) ELSE @,
               !.Slug = slugify(blog.Title)]

\* the local part of CreateBlog: id, timestamps, defaults, slug
PrepareCreate(blog, id, now) ==
  LET b1 == [blog EXCEPT !.ID = id, !.Created = now, !.Updated = now]
      b2 == IF b1.AuthorName = "" THEN [b1 EXCEPT !.AuthorName = "John Doe"] ELSE b1
      b3 == IF b2.AuthorUsername = "" THEN [b2 EXCEPT !.AuthorUsername = "johndoe"] ELSE b2
      b4 == IF b3.MetaName = << >> THEN [b3 EXCEPT !.MetaName = b3.Title] ELSE b3
      b5 == IF b4.MetaDescription = << >>
            THEN [b4 EXCEPT !.MetaDescription = ReadAbout(b4.Title)] ELSE b4
  IN IF b5.Slug = << >> THEN [b5 EXCEPT !.Slug = slugify(b5.Title)] ELSE b5

\* a CreateBlog that does not take the store lock
CreateBlogNoLock(t, blog) ==
  /\ pc[t] = "idle"
  /\ calls < MaxCalls
  /\ calls' = calls + 1
  /\ nextId' = nextId + 1
  /\ clock' = clock + 1
  /\ LET b == PrepareCreate(blog, nextId, clock + 1)
     IN loc' = [loc EXCEPT ![t] =
          [NoLoc EXCEPT !.op.kind = "CreateBlog", !.op.blog = blog,
                        !.blog = b, !.dir = b.Slug, !.pre = fs]]
  /\ pc' = [pc EXCEPT ![t] = "mkdir"]
  /\ UNCHANGED <<fs, mu, faults>>

\* CreateBlog: s.mu.Lock(), then everything up to the call of saveBlog
CreateBlogLock(t, blog) ==
  /\ pc[t] = "idle"
  /\ CanLock
  /\ calls < MaxCalls
  /\ calls' = calls + 1
  /\ mu' = [mu EXCEPT !.writer = t]
  /\ nextId' = nextId + 1
  /\ clock' = clock + 1
  /\ LET b == PrepareCreate(blog, nextId, clock + 1)
     IN loc' = [loc EXCEPT ![t] =
          [NoLoc EXCEPT !.op.kind = "CreateBlog", !.op.blog = blog,
                        !.blog = b, !.dir = b.Slug, !.pre = fs]]
  /\ pc' = [pc EXCEPT ![t] = "mkdir"]
  /\ UNCHANGED <<fs, faults>>

\* the value a writer returns with an error
ErrorValue(kind) == IF kind = "CreateBlog" THEN <<ZeroBlog>> ELSE << >>

\* a filesystem call of goroutine t fails: the method returns the error
FailWith(t) ==
  /\ CanFail
  /\ faults' = faults + 1
  /\ loc' = [loc EXCEPT ![t].ret = [err |-> ErrIO, val |-> ErrorValue(loc[t].op.kind)],
                        ![t].fault = TRUE]
  /\ pc' = [pc EXCEPT ![t] = "unlock"]
  /\ UNCHANGED <<fs, clock, nextId, mu, calls>>

\* saveBlog: os.MkdirAll(blogDir, 0755)
SaveMkdirAll(t) ==
  /\ pc[t] = "mkdir"
  /\ \/ /\ fs' = [fs EXCEPT ![loc[t].dir].exists = TRUE]
        /\ pc' = [pc EXCEPT ![t] = "wmeta"]
        /\ UNCHANGED <<clock, nextId, mu, loc, calls, faults>>
     \/ FailWith(t)

\* saveBlog: os.WriteFile(metadataPath, metadataData, 0644)
SaveWriteMetadata(t) ==
  /\ pc[t] = "wmeta"
  /\ \/ /\ fs' = [fs EXCEPT ![loc[t].dir].meta = <<Metadata(loc[t].blog, loc[t].dir)>>]
        /\ pc' = [pc EXCEPT ![t] = "wcontent"]
        /\ UNCHANGED <<clock, nextId, mu, loc, calls, faults>>
     \/ FailWith(t)

\* saveBlog: os.WriteFile(contentPath, []byte(blog.Content), 0644), and the
\* return of CreateBlog / UpdateBlogBySlug
SaveWriteContent(t) ==
  /\ pc[t] = "wcontent"
  /\ \/ /\ fs' = [fs EXCEPT ![loc[t].dir].content = <<loc[t].blog.Content>>]
        /\ loc' = [loc EXCEPT ![t].ret = [err |-> "", val |-> <<loc[t].blog>>]]
        /\ pc' = [pc EXCEPT ![t] = "unlock"]
        /\ UNCHANGED <<clock, nextId, mu, calls, faults>>
     \/ FailWith(t)

\* UpdateBlogBySlug: s.mu.Lock()
UpdateBlogBySlugLock(t, slug, updates) ==
  /\ pc[t] = "idle"
  /\ CanLock
  /\ calls < MaxCalls
  /\ calls' = calls + 1
  /\ mu' = [mu EXCEPT !.writer = t]
  /\ loc' = [loc EXCEPT ![t] =
       [NoLoc EXCEPT !.op.kind = "UpdateBlogBySlug", !.op.slug = slug,
                     !.op.updates = updates, !.pre = fs]]
  /\ pc' = [pc EXCEPT ![t] = "load"]
  /\ UNCHANGED <<fs, clock, nextId, faults>>

\* a uniqueness loop that compares the ids the wrong way round
SlugTakenSameId(blogs, existing, updates) ==
  /\ updates.Slug # Nil
  /\ updates.Slug[1] # existing.Slug
  /\ \E i \in 1..Len(blogs) :
       blogs[i].Slug = updates.Slug[1] /\ blogs[i].ID = existing.ID

\* the slug-uniqueness loop of UpdateBlogBySlug
SlugTaken(blogs, existing, updates) ==
  /\ updates.Slug # Nil
  /\ updates.Slug[1] # existing.Slug
  /\ \E i \in 1..Len(blogs) :
       blogs[i].Slug = updates.Slug[1] /\ blogs[i].ID # existing.ID

\* the "Apply updates" block of UpdateBlogBySlug
ApplyUpdates(existing, updates, now) ==
  [existing EXCEPT
     !.Title = IF updates.Title # Nil THEN updates.Title[1] ELSE @,
     !.Content = IF updates.Content # Nil THEN updates.Content[1] ELSE @,
     !.MetaName = IF updates.MetaName # Nil THEN updates.MetaName[1] ELSE @,
     !.MetaDescription =
        IF updates.MetaDescription # Nil THEN updates.MetaDescription[1] ELSE @,
     !.Slug = IF updates.Slug # Nil THEN updates.Slug[1] ELSE @,
     !.Published = IF updates.Published # Nil THEN updates.Published[1] ELSE @,
     !.Updated = now]

\* the directory saveBlog is told to write the updated post to
UpdateSaveSlug(slug, existing) == slug

\* UpdateBlogBySlug from loadAllBlogs to the stamping of Updated
UpdateLoad(t) ==
  /\ pc[t] = "load"
  /\ LET blogs == loadAllBlogs(fs)
         slug == loc[t].op.slug
         updates == loc[t].op.updates
         existing == FindBySlug(blogs, slug)
         updated == ApplyUpdates(existing, updates, ClockAfterLoad(fs) + 1)
     IN \/ /\ (ScanPanics(fs) \/ ~HasSlug(blogs, slug))
           /\ loc' = [loc EXCEPT ![t].ret =
                [err |-> IF ScanPanics(fs) THEN ErrPanic ELSE ErrNotFound,
                 val |-> << >>]]
           /\ pc' = [pc EXCEPT ![t] = "unlock"]
           /\ clock' = ClockAfterLoad(fs)
           /\ UNCHANGED <<fs, nextId, mu, calls, faults>>
        \/ /\ ~ScanPanics(fs) /\ HasSlug(blogs, slug)
           /\ SlugTaken(blogs, existing, updates)
           /\ loc' = [loc EXCEPT ![t].ret = [err |-> ErrSlugExists, val |-> << >>]]
           /\ pc' = [pc EXCEPT ![t] = "unlock"]
           /\ clock' = ClockAfterLoad(fs)
           /\ UNCHANGED <<fs, nextId, mu, calls, faults>>
        \/ /\ ~ScanPanics(fs) /\ HasSlug(blogs, slug)
           /\ ~SlugTaken(blogs, existing, updates)
           /\ clock' = ClockAfterLoad(fs) + 1
           /\ loc' = [loc EXCEPT ![t].blog = updated,
                                 ![t].dir = UpdateSaveSlug(slug, updated)]
           /\ pc' = [pc EXCEPT ![t] =
                IF updates.Slug # Nil /\ updates.Slug[1] # existing.Slug
                THEN "rename" ELSE "mkdir"]
           /\ UNCHANGED <<fs, nextId, mu, calls, faults>>
        \/ FailWith(t)                   \* os.ReadDir fails

\* an UpdateBlogBySlug that writes the changed metadata under the old slug
\* before it renames the directory
UpdateRenameAfterSave(t) ==
  /\ pc[t] = "rename"
  /\ LET old == loc[t].op.slug
         new == loc[t].op.updates.Slug[1]
         saved == IF fs[old].exists
                  THEN [fs EXCEPT ![old].meta = <<Metadata(loc[t].blog, old)>>]
                  ELSE fs
     IN \/ /\ RenameOk(fs, old, new)
           /\ fs' = RenameDir(saved, old, new)
           /\ pc' = [pc EXCEPT ![t] = "mkdir"]
           /\ UNCHANGED <<clock, nextId, mu, loc, calls, faults>>
        \/ /\ ~RenameOk(fs, old, new)
           /\ fs' = saved
           /\ loc' = [loc EXCEPT ![t].ret = [err |-> ErrIO, val |-> << >>]]
           /\ pc' = [pc EXCEPT ![t] = "unlock"]
           /\ UNCHANGED <<clock, nextId, mu, calls, faults>>
        \/ FailWith(t)

\* UpdateBlogBySlug: os.Rename(oldDir, newDir)
UpdateRename(t) ==
  /\ pc[t] = "rename"
  /\ LET old == loc[t].op.slug
         new == loc[t].op.updates.Slug[1]
     IN \/ /\ RenameOk(fs, old, new)
           /\ fs' = RenameDir(fs, old, new)
           /\ pc' = [pc EXCEPT ![t] = "mkdir"]
           /\ UNCHANGED <<clock, nextId, mu, loc, calls, faults>>
        \/ /\ ~RenameOk(fs, old, new)    \* ENOENT, ENOTEMPTY, EINVAL
           /\ loc' = [loc EXCEPT ![t].ret = [err |-> ErrIO, val |-> << >>]]
           /\ pc' = [pc EXCEPT ![t] = "unlock"]
           /\ UNCHANGED <<fs, clock, nextId, mu, calls, faults>>
        \/ FailWith(t)

\* DeleteBlogBySlug: s.mu.Lock()
DeleteBlogBySlugLock(t, slug) ==
  /\ pc[t] = "idle"
  /\ CanLock
  /\ calls < MaxCalls
  /\ calls' = calls + 1
  /\ mu' = [mu EXCEPT !.writer = t]
  /\ loc' = [loc EXCEPT ![t] =
       [NoLoc EXCEPT !.op.kind = "DeleteBlogBySlug", !.op.slug = slug, !.pre = fs]]
  /\ pc' = [pc EXCEPT ![t] = "delete"]
  /\ UNCHANGED <<fs, clock, nextId, faults>>

\* DeleteBlogBySlug from loadAllBlogs to os.RemoveAll
DeleteRemove(t) ==
  /\ pc[t] = "delete"
  /\ \/ /\ IF ~ScanPanics(fs) /\ HasSlug(loadAllBlogs(fs), loc[t].op.slug)
           THEN /\ fs' = RemoveAll(fs, loc[t].op.slug)
                /\ loc' = [loc EXCEPT ![t].ret = [err |-> "", val |-> << >>]]
           ELSE /\ loc' = [loc EXCEPT ![t].ret =
                     [err |-> IF ScanPanics(fs) THEN ErrPanic ELSE ErrNotFound,
                      val |-> << >>]]
                /\ UNCHANGED fs
        /\ pc' = [pc EXCEPT ![t] = "unlock"]
        /\ clock' = ClockAfterLoad(fs)
        /\ UNCHANGED <<nextId, mu, calls, faults>>
     \/ FailWith(t)                      \* os.ReadDir or os.RemoveAll fails

\* a return of a writer that leaves the store locked
WriteReturnLocked(t) ==
  /\ pc[t] = "unlock"
  /\ pc' = [pc EXCEPT ![t] = "idle"]
  /\ loc' = [loc EXCEPT ![t] = NoLoc]
  /\ UNCHANGED <<fs, mu, clock, nextId, calls, faults>>

\* defer s.mu.Unlock()
WriteUnlock(t) ==
  /\ pc[t] = "unlock"
  /\ mu' = [mu EXCEPT !.writer = 0]
  /\ pc' = [pc EXCEPT ![t] = "idle"]
  /\ loc' = [loc EXCEPT ![t] = NoLoc]
  /\ UNCHANGED <<fs, clock, nextId, calls, faults>>

Next ==
  \E t \in Threads :
    \/ GetAllBlogsLock(t)
    \/ \E slug \in LookupSlugs : GetBlogBySlugLock(t, slug)
    \/ ReadScan(t)
    \/ ReadUnlock(t)
    \/ \E blog \in CreateInputs : CreateBlogLock(t, blog)
    \/ SaveMkdirAll(t)
    \/ SaveWriteMetadata(t)
    \/ SaveWriteContent(t)
    \/ \E slug \in LookupSlugs, updates \in UpdateRequests :
         UpdateBlogBySlugLock(t, slug, updates)
    \/ UpdateLoad(t)
    \/ UpdateRename(t)
    \/ \E slug \in LookupSlugs : DeleteBlogBySlugLock(t, slug)
    \/ DeleteRemove(t)
    \/ WriteUnlock(t)

Spec == Init /\ [][Next]_vars

\* ------------------------------------------ a data root edited out of band
\* The store is opened on a data root it did not write alone: directories put
\* there, truncated or edited by hand.
DiskPost(id, slug) ==
  [ZeroBlog EXCEPT !.ID = id, !.Title = <<"N">>, !.Content = "c0",
                   !.AuthorName = "John Doe", !.AuthorUsername = "johndoe",
                   !.MetaName = <<"N">>, !.MetaDescription = ReadAbout(<<"N">>),
                   !.Slug = slug]

FullDir(meta, content) ==
  [exists |-> TRUE, meta |-> <<meta>>, content |-> <<content>>, image |-> << >>]

\* the sets of metadata keys an edit has removed or spoilt
BadKeySets == {{"id"}, {"title"}, {"created"}, {"updated"}, {"created", "updated"}}

\* what the directory name may hold: nothing, a post as saveBlog writes it,
\* one of the two files only, metadata that is not JSON, metadata with
\* missing or spoilt keys, metadata naming the slug other
DiskDirs(id, name, other) ==
  LET m == Metadata(DiskPost(id, name), name)
  IN { AbsentDir,
       FullDir(m, "c0"),
       [EmptyDir EXCEPT !.content = <<"c0">>],
       [EmptyDir EXCEPT !.meta = <<m>>],
       FullDir([m EXCEPT !.json = FALSE], "c0"),
       FullDir([m EXCEPT !.slug = other], "c0") }
     \cup { FullDir([m EXCEPT !.bad = keys], "c0") : keys \in BadKeySets }

DiskStates ==
  { [n \in Names |->
       IF n = Root THEN EmptyDir
       ELSE IF n = SlugA THEN da
       ELSE IF n = SlugB THEN db
       ELSE AbsentDir] :
      da \in DiskDirs(8, SlugA, SlugB),
      db \in {AbsentDir, FullDir(Metadata(DiskPost(9, SlugB), SlugB), "c0"),
              FullDir(Metadata(DiskPost(9, SlugA), SlugA), "c0")} }

\* NewFileBlogStore on an existing data root
InitDisk ==
  /\ fs \in DiskStates
  /\ clock = 1
  /\ nextId = 1
  /\ mu = [writer |-> 0, readers |-> {}]
  /\ pc = [t \in Threads |-> "idle"]
  /\ loc = [t \in Threads |-> NoLoc]
  /\ calls = 0
  /\ faults = 0

\* the calls made on the posts found there
NextDisk ==
  \E t \in Threads :
    \/ GetAllBlogsLock(t)
    \/ \E slug \in LookupSlugs : GetBlogBySlugLock(t, slug)
    \/ ReadScan(t)
    \/ ReadUnlock(t)
    \/ \E slug \in LookupSlugs, updates \in UpdateRequests :
         UpdateBlogBySlugLock(t, slug, updates)
    \/ UpdateLoad(t)
    \/ UpdateRename(t)
    \/ SaveMkdirAll(t)
    \/ SaveWriteMetadata(t)
    \/ SaveWriteContent(t)
    \/ \E slug \in LookupSlugs : DeleteBlogBySlugLock(t, slug)
    \/ DeleteRemove(t)
    \/ WriteUnlock(t)

SpecDisk == InitDisk /\ [][NextDisk]_vars

\* ------------------------------------------------- the return of a call
\* Goroutine t has computed the result of a kind call and still holds the
\* lock (the deferred unlock has not run): fs is the state the call leaves.
Returned(t, kind) == pc[t] \in {"unlock", "runlock"} /\ loc[t].op.kind = kind
Succeeded(t) == loc[t].ret.err = ""
NoFaultYet == faults = 0      \* every filesystem call of the run has succeeded
PreBlogs(t) == loadAllBlogs(loc[t].pre)

NoDuplicateSlug(blogs) ==
  \A i, j \in 1..Len(blogs) : i # j => blogs[i].Slug # blogs[j].Slug

\* C1: after any sequence of create, update and delete calls on an initially
\* empty data root (here: even when no filesystem call has failed), the list
\* GetAllBlogs returns never holds two posts with the same slug.
C1_UniqueSlugs ==
  \A t \in Threads :
    (NoFaultYet /\ Returned(t, "GetAllBlogs") /\ Succeeded(t)) =>
      NoDuplicateSlug(loc[t].ret.val)

\* a successful UpdateBlogBySlug(old, changes) with changes.slug = new,
\* new # old, and no post using new before the call
RenamedTo(t, old, new) ==
  /\ NoFaultYet
  /\ Returned(t, "UpdateBlogBySlug") /\ Succeeded(t)
  /\ loc[t].op.slug = old
  /\ loc[t].op.updates.Slug = Some(new)
  /\ new # old
  /\ ~HasSlug(PreBlogs(t), new)

\* C2: after a successful slug-changing update old -> new (no filesystem
\* call having failed), the post's files
\* are in directory new with metadata slug new and the applied changes, no
\* directory old remains, GetBlogBySlug(new) returns the post with its
\* original id and GetBlogBySlug(old) is not-found.
C2_RenameMovesPost ==
  \A t \in Threads : \A old, new \in Names :
    RenamedTo(t, old, new) =>
      /\ IsBlogDir(fs[new])
      /\ fs[new].meta[1].slug = new
      /\ DecodeBlog(fs[new], clock).Title = loc[t].ret.val[1].Title
      /\ DecodeBlog(fs[new], clock).Content = loc[t].ret.val[1].Content
      /\ ~fs[old].exists
      /\ GetBlogBySlugResult(fs, new).err = ""
      /\ GetBlogBySlugResult(fs, new).val[1].ID = FindBySlug(PreBlogs(t), old).ID
      /\ GetBlogBySlugResult(fs, old).err = ErrNotFound

\* C3: when DeleteBlogBySlug(slug) returns success (no filesystem call
\* having failed in the run), GetBlogBySlug(slug) is
\* not-found and GetAllBlogs holds no post with that slug.
C3_DeletedIsGone ==
  \A t \in Threads :
    (NoFaultYet /\ Returned(t, "DeleteBlogBySlug") /\ Succeeded(t)) =>
      /\ GetBlogBySlugResult(fs, loc[t].op.slug).err = ErrNotFound
      /\ ~HasSlug(loadAllBlogs(fs), loc[t].op.slug)

\* C4: when CreateBlog of a post with non-empty title and content succeeds
\* (no filesystem call having failed in the run)
\* and returns slug s, GetBlogBySlug(s) succeeds with the same title and
\* content and createdAt = updatedAt.
C4_CreatedIsReadable ==
  \A t \in Threads :
    (/\ NoFaultYet
     /\ Returned(t, "CreateBlog") /\ Succeeded(t)
     /\ loc[t].op.blog.Title # << >> /\ loc[t].op.blog.Content # "") =>
      LET created == loc[t].ret.val[1]
          got == GetBlogBySlugResult(fs, created.Slug)
      IN /\ got.err = ""
         /\ got.val[1].Title = created.Title
         /\ got.val[1].Content = created.Content
         /\ got.val[1].Created = got.val[1].Updated

\* C5: a successful UpdateBlogBySlug(slug, {title: T}) (no filesystem call
\* having failed in the run) returns a post with
\* updatedAt > createdAt and the id the post had, and GetBlogBySlug(slug)
\* then returns title T.
C5_TitleUpdate ==
  \A t \in Threads : \A title \in {<<"N">>} :
    (/\ NoFaultYet
     /\ Returned(t, "UpdateBlogBySlug") /\ Succeeded(t)
     /\ loc[t].op.updates = [NoUpdates EXCEPT !.Title = Some(title)]) =>
      LET post == loc[t].ret.val[1]
          got == GetBlogBySlugResult(fs, loc[t].op.slug)
      IN /\ post.Updated > post.Created
         /\ post.ID = FindBySlug(PreBlogs(t), loc[t].op.slug).ID
         /\ got.err = ""
         /\ got.val[1].Title = title

\* UpdateBlogBySlug(slug, {slug: other}) has returned, other is the slug of
\* another post listed before the call, and no filesystem call of it failed
ConflictingRename(t) ==
  /\ Returned(t, "UpdateBlogBySlug")
  /\ ~loc[t].fault
  /\ loc[t].op.updates.Slug # Nil
  /\ loc[t].op.updates.Slug[1] # loc[t].op.slug
  /\ HasSlug(PreBlogs(t), loc[t].op.slug)
  /\ HasSlug(PreBlogs(t), loc[t].op.updates.Slug[1])

\* C6: an update that renames a post to the slug of a different existing
\* post fails with "slug already exists" and leaves every file as it was
\* (given that the call's directory listing itself did not fail).
C6_SlugConflict ==
  \A t \in Threads :
    ConflictingRename(t) => (loc[t].ret.err = ErrSlugExists /\ fs = loc[t].pre)

C6_Witness ==
  \E t \in Threads :
    /\ ConflictingRename(t)
    /\ loc[t].ret.err = ErrSlugExists
    /\ IsBlogDir(fs[loc[t].op.slug])
    /\ IsBlogDir(fs[loc[t].op.updates.Slug[1]])

\* ------------------------------------------ N concurrent CreateBlog calls
\* The posts the goroutines create concurrently.
ConcurrentTitles == {<<"A">>, <<"B">>, <<"N">>, <<"!">>}
ConcurrentInputs ==
  { [ZeroBlog EXCEPT !.Title = t, !.Content = c, !.Slug = s] :
      t \in ConcurrentTitles, c \in Contents, s \in {Root, SlugB} }

\* CreateBlog returns to a caller that keeps the result: defer s.mu.Unlock()
CreateBlogReturn(t) ==
  /\ pc[t] = "unlock"
  /\ mu' = [mu EXCEPT !.writer = 0]
  /\ pc' = [pc EXCEPT ![t] = "done"]
  /\ UNCHANGED <<fs, clock, nextId, loc, calls, faults>>

\* every goroutine calls CreateBlog once
NextCreate ==
  \E t \in Threads :
    \/ \E blog \in ConcurrentInputs : CreateBlogLock(t, blog)
    \/ SaveMkdirAll(t)
    \/ SaveWriteMetadata(t)
    \/ SaveWriteContent(t)
    \/ CreateBlogReturn(t)

SpecCreate == Init /\ [][NextCreate]_vars

\* the slug a create request asks for: the explicit one, else the one
\* derived from the title
RequestedSlug(blog) == IF blog.Slug # << >> THEN blog.Slug ELSE slugify(blog.Title)

\* all goroutines have returned from CreateBlog calls for posts with
\* pairwise distinct, non-empty slugs, and no filesystem call failed
AllCreatedDistinct ==
  /\ NoFaultYet
  /\ \A t \in Threads : pc[t] = "done"
  /\ \A t \in Threads : RequestedSlug(loc[t].op.blog) # << >>
  /\ \A t, u \in Threads :
       t # u => RequestedSlug(loc[t].op.blog) # RequestedSlug(loc[u].op.blog)

\* the post GetAllBlogs lists for the post CreateBlog returned
SamePost(listed, created) ==
  /\ listed.ID = created.ID
  /\ listed.Slug = created.Slug
  /\ listed.Title = created.Title
  /\ listed.Content = created.Content

WriterPcs == {"mkdir", "wmeta", "wcontent", "load", "rename", "delete", "unlock"}
ReaderPcs == {"scan", "runlock"}
Writing(t) == pc[t] \in WriterPcs
Reading(t) == pc[t] \in ReaderPcs

\* C8: at most one writer is inside its critical section, and no reader is
\* inside its scan while a writer is inside its critical section.
C8_ReadersWriterExclusion ==
  /\ \A t, u \in Threads : (Writing(t) /\ Writing(u)) => t = u
  /\ \A t, u \in Threads : Writing(t) => ~Reading(u)

\* two readers scan at the same time
C8_Witness ==
  \E t, u \in Threads : t # u /\ pc[t] = "scan" /\ pc[u] = "scan"

\* a subdirectory of the data root holding exactly one of the two files
HalfWritten(entry) == entry.exists /\ ((entry.meta = << >>) # (entry.content = << >>))

\* C9: whenever a reader scans the data root, no post directory holds
\* exactly one of content.md and metadata.json, also when a filesystem step
\* of a create or update has failed.
C9_NoHalfWrittenPost ==
  \A t \in Threads :
    pc[t] = "scan" => \A n \in SubDirs : ~HalfWritten(fs[n])

\* the listed posts are pairwise different posts: each was created by its
\* own CreateBlog call, and no two calls read the same time
DistinctPosts(blogs) ==
  \A i, j \in 1..Len(blogs) : i # j => blogs[i].ID # blogs[j].ID

\* C10: for posts created by different CreateBlog calls, hence at pairwise
\* distinct times (no filesystem call having failed), GetAllBlogs returns
\* them in strictly descending order of createdAt.
C10_NewestFirst ==
  \A t \in Threads :
    (/\ NoFaultYet
     /\ Returned(t, "GetAllBlogs") /\ Succeeded(t)
     /\ DistinctPosts(loc[t].ret.val)) =>
      \A i, j \in 1..Len(loc[t].ret.val) :
        i < j => loc[t].ret.val[i].Created > loc[t].ret.val[j].Created

\* ------------------------------------------------ undecodable directories
\* a post directory whose metadata is not JSON, or lacks a usable id or
\* another of the fields of a post
Broken(entry) ==
  /\ IsBlogDir(entry)
  /\ \/ ~entry.meta[1].json
     \/ entry.meta[1].bad \cap ({"id"} \cup AssertedKeys) # {}

Decodable(entry) == IsBlogDir(entry) /\ ~Broken(entry)

\* C11: when a post directory under the data root cannot be decoded
\* (metadata not JSON, id missing or not a UUID, another field missing or of
\* the wrong type), GetAllBlogs still succeeds and returns exactly the posts
\* of the other, decodable directories.
C11_CorruptDirSkipped ==
  \A t \in Threads :
    (/\ Returned(t, "GetAllBlogs") /\ ~loc[t].fault
     /\ \E n \in SubDirs : Broken(loc[t].pre[n])) =>
      /\ Succeeded(t)
      /\ Len(loc[t].ret.val) =
           Cardinality({n \in SubDirs : Decodable(loc[t].pre[n])})
      /\ \A n \in SubDirs :
           Decodable(loc[t].pre[n]) =>
             \E i \in 1..Len(loc[t].ret.val) :
               loc[t].ret.val[i].ID = loc[t].pre[n].meta[1].id

\* C12: a subdirectory of the data root holding only one of content.md and
\* metadata.json contributes no post to GetAllBlogs, and GetBlogBySlug called
\* with that directory's name fails with not-found (stated for calls whose
\* scan neither fails nor panics).
C12_HalfDirInvisible ==
  \A t \in Threads : \A n \in SubDirs :
    (/\ HalfWritten(loc[t].pre[n])
     /\ ~loc[t].fault /\ ~ScanPanics(loc[t].pre)) =>
      /\ (Returned(t, "GetBlogBySlug") /\ loc[t].op.slug = n) =>
           loc[t].ret.err = ErrNotFound
      /\ Returned(t, "GetAllBlogs") =>
           Len(loc[t].ret.val) =
             Cardinality({d \in SubDirs \ {n} : ~SkipsDir(loc[t].pre[d])})

\* ------------------------------------------------------- slugify alone
MaxTitleLen == 5     \* length of the titles slugify is applied to

\* the characters titles are made of: a letter in both cases, the three
\* characters slugify turns into or keeps as hyphens, and one it drops
TitleChars == {"a", "A", "-", " ", "_", "!"}
TitleStrings == UNION { [1..n -> TitleChars] : n \in 0..MaxTitleLen }

\* goroutine 1 is about to call slugify on some title
InitSlug ==
  /\ fs = EmptyFS
  /\ clock = 1
  /\ nextId = 1
  /\ mu = [writer |-> 0, readers |-> {}]
  /\ pc = [t \in Threads |-> IF t = 1 THEN "slugify" ELSE "idle"]
  /\ \E title \in TitleStrings :
       loc = [t \in Threads |->
                IF t = 1 THEN [NoLoc EXCEPT !.op.kind = "slugify", !.op.blog.Title = title]
                ELSE NoLoc]
  /\ calls = 0
  /\ faults = 0

\* slug := slugify(title)
Slugify(t) ==
  /\ pc[t] = "slugify"
  /\ loc' = [loc EXCEPT ![t].blog.Slug = slugify(loc[t].op.blog.Title)]
  /\ pc' = [pc EXCEPT ![t] = "slugified"]
  /\ UNCHANGED <<fs, clock, nextId, mu, calls, faults>>

NextSlug == \E t \in Threads : Slugify(t)

SpecSlug == InitSlug /\ [][NextSlug]_vars

\* C13: for every title, slugify(title) consists of lowercase ASCII letters,
\* digits and hyphens only, neither starts nor ends with a hyphen, and holds
\* no two adjacent hyphens.
C13_SlugShape ==
  \A t \in Threads :
    pc[t] = "slugified" =>
      LET slug == loc[t].blog.Slug
      IN /\ \A i \in 1..Len(slug) : IsSlugChar(slug[i])
         /\ slug # << >> => (slug[1] # "-" /\ slug[Len(slug)] # "-")
         /\ \A i \in 1..(Len(slug) - 1) : ~(slug[i] = "-" /\ slug[i + 1] = "-")

\* --------------------------------------------------------- ids and times
\* C14: no two posts GetAllBlogs returns share an id (here: even when no
\* filesystem call has failed), whatever creates, updates, slug renames and
\* deletes came before.
C14_UniqueIds ==
  \A t \in Threads :
    (NoFaultYet /\ Returned(t, "GetAllBlogs") /\ Succeeded(t)) =>
      \A i, j \in 1..Len(loc[t].ret.val) :
        i # j => loc[t].ret.val[i].ID # loc[t].ret.val[j].ID

\* the posts a returned call hands to its caller
ReturnedPosts(t) == {loc[t].ret.val[i] : i \in 1..Len(loc[t].ret.val)}

\* C15: every post a successful GetAllBlogs, GetBlogBySlug, CreateBlog or
\* UpdateBlogBySlug returns has updatedAt >= createdAt, also when a stored
\* timestamp string is malformed and the reader substitutes the current time.
C15_UpdatedNotBeforeCreated ==
  \A t \in Threads :
    (pc[t] \in {"unlock", "runlock"} /\ Succeeded(t)) =>
      \A post \in ReturnedPosts(t) : post.Updated >= post.Created

\* C16: when UpdateBlogBySlug succeeds (no filesystem call having failed in
\* the run), GetBlogBySlug of the returned post's slug shows the createdAt
\* the post had before the call, and an updatedAt that is the time of this
\* update (in whole seconds) and not before the previous updatedAt.
C16_UpdateTimes ==
  \A t \in Threads :
    (NoFaultYet /\ Returned(t, "UpdateBlogBySlug") /\ Succeeded(t)) =>
      LET before == FindBySlug(PreBlogs(t), loc[t].op.slug)
          post == loc[t].ret.val[1]
          got == GetBlogBySlugResult(fs, post.Slug)
      IN /\ got.err = ""
         /\ got.val[1].Created = before.Created
         /\ got.val[1].Updated = ParseRFC3339(FormatRFC3339(post.Updated))
         /\ got.val[1].Updated >= before.Updated

\* time.Time after Format(time.RFC3339) and time.Parse: whole seconds
TruncateToSecond(t) == ParseRFC3339(FormatRFC3339(t))

\* C17: when saveBlog has written a post (no filesystem call having failed
\* in the run), decoding the directory it wrote yields a post equal to the
\* one written in id, slug, title, content, author name and username, meta
\* title and description and published flag, and in createdAt and updatedAt
\* truncated to whole seconds.
C17_SaveLoadRoundTrip ==
  \A t \in Threads :
    (/\ NoFaultYet
     /\ pc[t] = "unlock" /\ Succeeded(t)
     /\ loc[t].op.kind \in {"CreateBlog", "UpdateBlogBySlug"}) =>
      DecodeBlog(fs[loc[t].dir], clock) =
        [loc[t].blog EXCEPT !.Created = TruncateToSecond(@),
                            !.Updated = TruncateToSecond(@)]

\* C18: every post a reader returns was read from a directory named by the
\* post's slug: when GetAllBlogs or GetBlogBySlug returns (no filesystem call
\* having failed in the run), every post directory of the data root it
\* scanned has the name its metadata.json gives as slug.
C18_DirNameIsSlug ==
  \A t \in Threads :
    (/\ NoFaultYet
     /\ (Returned(t, "GetAllBlogs") \/ Returned(t, "GetBlogBySlug"))) =>
      \A n \in SubDirs :
        IsBlogDir(loc[t].pre[n]) => loc[t].pre[n].meta[1].slug = n

\* ---------------------------------------------------- failure of os.Rename
\* C19: a step in which the os.Rename of a slug-changing UpdateBlogBySlug
\* fails makes the call return an I/O error and leaves the data root, the
\* post's files under the old slug included, exactly as it was when the call
\* began.
C19_RenameFailureKeepsFiles ==
  [][\A t \in Threads :
       (pc[t] = "rename" /\ pc'[t] = "unlock") =>
         (loc'[t].ret.err = ErrIO /\ fs' = loc[t].pre)]_vars

\* os.Rename has failed on a non-empty target directory and the post is
\* still in its old directory
C19_Witness ==
  \E t \in Threads :
    /\ Returned(t, "UpdateBlogBySlug")
    /\ loc[t].ret.err = ErrIO /\ ~loc[t].fault
    /\ loc[t].op.updates.Slug # Nil
    /\ ~RenameOk(fs, loc[t].op.slug, loc[t].op.updates.Slug[1])
    /\ IsBlogDir(fs[loc[t].op.slug])
    /\ fs = loc[t].pre

\* ----------------------------------------------- the create HTTP handler
\* BlogHandler.CreateBlog on a well-formed multipart form.
FormOf(title, content, image) ==
  [Title |-> title, Content |-> content, Slug |-> Root, Image |-> image]

CreateRequests ==
  { FormOf(<<"A">>, "c1", "none"), FormOf(<<"A">>, "c1", "ok"),
    FormOf(<<"A">>, "c1", "unsupported"),
    FormOf(<< >>, "c1", "none"), FormOf(<<"A">>, "", "ok"),
    FormOf(<< >>, "c1", "undecodable") }

\* a Validate that only looks at the title
ValidateTitleOnly(req) == IF req.Title = << >> THEN "Title is required" ELSE ""

\* CreateBlogRequest.Validate: the message of the ValidationError, "" for nil
Validate(req) ==
  IF req.Title = << >> THEN "Title is required"
  ELSE IF req.Content = "" THEN "Content is required"
  ELSE ""

\* the models.Blog the handler hands to the store
NewBlog(req) ==
  [ZeroBlog EXCEPT !.Title = req.Title, !.Content = req.Content, !.Slug = req.Slug]

\* the error response the handler sends before it reaches the store, in the
\* order of its tests: image validation, image processing, Validate
\* (status 0: none, the store is called)
EarlyResponse(req) ==
  IF req.Image = "unsupported"
  THEN [status |-> 400, message |-> "Invalid image file"]
  ELSE IF req.Image = "undecodable"
  THEN [status |-> 500, message |-> "Failed to process image"]
  ELSE IF Validate(req) # ""
  THEN [status |-> 400, message |-> "Validation failed"]
  ELSE [status |-> 0, message |-> ""]

\* the handler from the parsing of the form to its early return or to the
\* s.mu.Lock() of store.CreateBlog
HandleCreateBlog(t, req) ==
  /\ pc[t] = "idle"
  /\ calls < MaxCalls
  /\ calls' = calls + 1
  /\ IF EarlyResponse(req).status # 0
     THEN /\ loc' = [loc EXCEPT ![t] =
               [NoLoc EXCEPT !.req = req, !.pre = fs,
                             !.status = EarlyResponse(req).status,
                             !.message = EarlyResponse(req).message]]
          /\ pc' = [pc EXCEPT ![t] = "respond"]
          /\ UNCHANGED <<fs, clock, nextId, mu, faults>>
     ELSE /\ CanLock
          /\ mu' = [mu EXCEPT !.writer = t]
          /\ nextId' = nextId + 1
          /\ clock' = clock + 1
          /\ LET b == PrepareCreate(NewBlog(req), nextId, clock + 1)
             IN loc' = [loc EXCEPT ![t] =
                  [NoLoc EXCEPT !.op.kind = "CreateBlog", !.op.blog = NewBlog(req),
                                !.blog = b, !.dir = b.Slug, !.pre = fs, !.req = req]]
          /\ pc' = [pc EXCEPT ![t] = "mkdir"]
          /\ UNCHANGED <<fs, faults>>

\* store.CreateBlog returns to the handler: defer s.mu.Unlock(), then the
\* error response or the saving of the image
HandleCreateReturn(t) ==
  /\ pc[t] = "unlock"
  /\ mu' = [mu EXCEPT !.writer = 0]
  /\ IF loc[t].ret.err # ""
     THEN /\ loc' = [loc EXCEPT ![t].status = 500,
                                ![t].message = "Failed to create blog"]
          /\ pc' = [pc EXCEPT ![t] = "respond"]
     ELSE IF loc[t].req.Image = "ok"
     THEN /\ pc' = [pc EXCEPT ![t] = "imgmkdir"]
          /\ UNCHANGED loc
     ELSE /\ loc' = [loc EXCEPT ![t].status = 201,
                                ![t].message = "Blog created successfully"]
          /\ pc' = [pc EXCEPT ![t] = "respond"]
  /\ UNCHANGED <<fs, clock, nextId, calls, faults>>

\* SendSuccess(w, http.StatusCreated, ...)
Created201(t) ==
  /\ loc' = [loc EXCEPT ![t].status = 201, ![t].message = "Blog created successfully"]
  /\ pc' = [pc EXCEPT ![t] = "respond"]

\* the handler saves the image: os.MkdirAll(blogDir, 0755); a failure is
\* only printed
HandleImageMkdirAll(t) ==
  /\ pc[t] = "imgmkdir"
  /\ \/ /\ fs' = [fs EXCEPT ![loc[t].ret.val[1].Slug].exists = TRUE]
        /\ pc' = [pc EXCEPT ![t] = "imgwrite"]
        /\ UNCHANGED <<loc, faults>>
     \/ /\ CanFail
        /\ faults' = faults + 1
        /\ Created201(t)
        /\ UNCHANGED fs
  /\ UNCHANGED <<clock, nextId, mu, calls>>

\* the handler saves the image: os.WriteFile(imagePath, imageData, 0644); a
\* failure is only printed
HandleImageWrite(t) ==
  /\ pc[t] = "imgwrite"
  /\ \/ /\ fs' = IF fs[loc[t].ret.val[1].Slug].exists
                 THEN [fs EXCEPT ![loc[t].ret.val[1].Slug].image = <<"image.png">>]
                 ELSE fs
        /\ UNCHANGED faults
     \/ /\ CanFail
        /\ faults' = faults + 1
        /\ UNCHANGED fs
  /\ Created201(t)
  /\ UNCHANGED <<clock, nextId, mu, calls>>

\* the response is written and the handler returns
HandleRespond(t) ==
  /\ pc[t] = "respond"
  /\ pc' = [pc EXCEPT ![t] = "idle"]
  /\ loc' = [loc EXCEPT ![t] = NoLoc]
  /\ UNCHANGED <<fs, clock, nextId, mu, calls, faults>>

NextHandler ==
  \E t \in Threads :
    \/ \E req \in CreateRequests : HandleCreateBlog(t, req)
    \/ SaveMkdirAll(t)
    \/ SaveWriteMetadata(t)
    \/ SaveWriteContent(t)
    \/ HandleCreateReturn(t)
    \/ HandleImageMkdirAll(t)
    \/ HandleImageWrite(t)
    \/ HandleRespond(t)

SpecHandler == Init /\ [][NextHandler]_vars

InvalidRequest(req) == req.Title = << >> \/ req.Content = ""

\* every create request with an empty title or empty content is answered
\* with HTTP 400
C20_RejectedWith400 ==
  \A t \in Threads :
    (pc[t] = "respond" /\ InvalidRequest(loc[t].req)) => loc[t].status = 400

\* C20: a create request with an empty title or empty content is rejected in
\* one step that neither calls the store (no lock, no id) nor changes the
\* data root; the response is HTTP 400, or HTTP 500 when the request carries
\* an image that cannot be decoded, the image being processed before the
\* fields are validated.
C20_InvalidRequestRejected ==
  [][\A t \in Threads :
       (pc[t] = "idle" /\ pc'[t] # "idle" /\ InvalidRequest(loc'[t].req)) =>
         /\ pc'[t] = "respond"
         /\ loc'[t].status = IF loc'[t].req.Image = "undecodable" THEN 500 ELSE 400
         /\ fs' = fs /\ mu' = mu /\ nextId' = nextId]_vars

\* a request without content has been rejected by Validate while the data
\* root holds a post
C20_Witness ==
  \E t \in Threads :
    /\ pc[t] = "respond"
    /\ loc[t].req.Title # << >> /\ loc[t].req.Content = ""
    /\ loc[t].status = 400 /\ loc[t].message = "Validation failed"
    /\ loc[t].ret = NoRet
    /\ fs = loc[t].pre
    /\ \E n \in SubDirs : IsBlogDir(fs[n])

\* ------------------------------------- store results at the HTTP boundary
\* The update and delete API handlers (on forms without an image part) and
\* the server-rendered post and edit pages, on the calls of the store they
\* make.  A store call that panics never returns to its handler: net/http
\* closes the connection and no status is sent (status 0).
StatusNotFound == 404
StatusConflict == 409
StatusInternalServerError == 500
StatusOK == 200

\* BlogHandler.UpdateBlogBySlug: the response to what the store returned
UpdateResponse(err) ==
  IF err = "" THEN [status |-> StatusOK, message |-> "Blog updated successfully"]
  ELSE IF err = ErrNotFound THEN [status |-> StatusNotFound, message |-> "Blog not found"]
  ELSE IF err = ErrSlugExists
  THEN [status |-> StatusConflict, message |-> "Slug already exists"]
  ELSE [status |-> StatusInternalServerError, message |-> "Failed to update blog"]

\* BlogHandler.DeleteBlogBySlug: the response to what the store returned
DeleteResponse(err) ==
  IF err = "" THEN [status |-> StatusOK, message |-> "Blog deleted successfully"]
  ELSE IF err = ErrNotFound THEN [status |-> StatusNotFound, message |-> "Blog not found"]
  ELSE [status |-> StatusInternalServerError, message |-> "Failed to delete blog"]

\* the store returns to the update or delete handler: defer s.mu.Unlock(),
\* then SendError or SendSuccess
HandleWriteReturn(t) ==
  /\ pc[t] = "unlock"
  /\ loc[t].op.kind \in {"UpdateBlogBySlug", "DeleteBlogBySlug"}
  /\ mu' = [mu EXCEPT !.writer = 0]
  /\ LET resp == IF loc[t].ret.err = ErrPanic THEN [status |-> 0, message |-> ""]
                 ELSE IF loc[t].op.kind = "UpdateBlogBySlug"
                 THEN UpdateResponse(loc[t].ret.err)
                 ELSE DeleteResponse(loc[t].ret.err)
     IN loc' = [loc EXCEPT ![t].status = resp.status, ![t].message = resp.message]
  /\ pc' = [pc EXCEPT ![t] = "respond"]
  /\ UNCHANGED <<fs, clock, nextId, calls, faults>>

\* GetBlogBySlug returns to the page handler of /blogs/{slug} or
\* /blogs/{slug}/edit: defer s.mu.RUnlock(), then the templates.  On any
\* error the handler executes notfound.html on the ResponseWriter without
\* WriteHeader, so the page goes out with the implicit status 200; only when
\* the template fails before writing does http.NotFound send 404.  On
\* success a failing blog.html / edit.html gives http.Error 500.
PageReturn(t) ==
  /\ pc[t] = "runlock"
  /\ loc[t].op.kind = "GetBlogBySlug"
  /\ mu' = [mu EXCEPT !.readers = @ \ {t}]
  /\ \/ /\ loc' = [loc EXCEPT
                     ![t].status = IF loc[t].ret.err = ErrPanic THEN 0 ELSE StatusOK,
                     ![t].message = IF loc[t].ret.err = "" THEN "blog.html"
                                    ELSE IF loc[t].ret.err = ErrPanic THEN ""
                                    ELSE "notfound.html"]
        /\ UNCHANGED faults
     \/ /\ CanFail /\ loc[t].ret.err # ErrPanic       \* ExecuteTemplate fails
        /\ faults' = faults + 1
        /\ loc' = [loc EXCEPT
                     ![t].status = IF loc[t].ret.err = ""
                                   THEN StatusInternalServerError ELSE StatusNotFound,
                     ![t].message = IF loc[t].ret.err = ""
                                    THEN "Failed to render template"
                                    ELSE "404 page not found"]
  /\ pc' = [pc EXCEPT ![t] = "respond"]
  /\ UNCHANGED <<fs, clock, nextId, calls>>

NextStatus ==
  \E t \in Threads :
    \/ \E slug \in LookupSlugs : GetBlogBySlugLock(t, slug)
    \/ ReadScan(t)
    \/ PageReturn(t)
    \/ \E slug \in LookupSlugs, updates \in UpdateRequests :
         UpdateBlogBySlugLock(t, slug, updates)
    \/ UpdateLoad(t)
    \/ UpdateRename(t)
    \/ SaveMkdirAll(t)
    \/ SaveWriteMetadata(t)
    \/ SaveWriteContent(t)
    \/ \E slug \in LookupSlugs : DeleteBlogBySlugLock(t, slug)
    \/ DeleteRemove(t)
    \/ HandleWriteReturn(t)
    \/ HandleRespond(t)

\* the server starts on a data root holding the posts a and b
InitStatus ==
  /\ InitDisk
  /\ \A n \in {SlugA, SlugB} :
       fs[n] = FullDir(Metadata(DiskPost(IF n = SlugA THEN 8 ELSE 9, n), n), "c0")

SpecStatus == InitStatus /\ [][NextStatus]_vars

\* C21: when a handler responds to a result of the store, a not-found
\* result (update, delete, post and edit pages) has status 404, a slug
\* conflict a 4xx status with a message, and any other store error a 5xx
\* status.
C21_StatusClasses ==
  \A t \in Threads :
    pc[t] = "respond" =>
      /\ loc[t].ret.err = ErrNotFound => loc[t].status = StatusNotFound
      /\ loc[t].ret.err = ErrSlugExists =>
           (loc[t].status \in 400..499 /\ loc[t].message # "")
      /\ loc[t].ret.err = ErrIO => loc[t].status \in 500..599

\* ------------------------------------------------------ creating posts
\* C22: a CreateBlog with no explicit slug whose title holds no ASCII letter
\* or digit, so that the derived slug is empty, does not succeed and writes
\* nothing under the data root.
C22_EmptySlugRejected ==
  \A t \in Threads :
    (/\ Returned(t, "CreateBlog")
     /\ loc[t].op.blog.Slug = << >>
     /\ slugify(loc[t].op.blog.Title) = << >>) =>
      (~Succeeded(t) /\ fs = loc[t].pre)

\* ------------------------------------------ writers one after another
\* What a writer does when it runs alone on the data root f, with no failing
\* filesystem call: the data root it leaves and the result it returns.
SeqSave(f, blog, dir) ==
  [f EXCEPT ![dir] = [@ EXCEPT !.exists = TRUE, !.meta = <<Metadata(blog, dir)>>,
                               !.content = <<blog.Content>>]]

SeqCreate(f, blog, id, now) ==
  LET b == PrepareCreate(blog, id, now)
  IN [fs |-> SeqSave(f, b, b.Slug), ret |-> [err |-> "", val |-> <<b>>]]

SeqUpdate(f, slug, updates, now) ==
  LET blogs == loadAllBlogs(f)
      existing == FindBySlug(blogs, slug)
      updated == ApplyUpdates(existing, updates, now)
      renames == updates.Slug # Nil /\ updates.Slug[1] # existing.Slug
  IN IF ~HasSlug(blogs, slug)
     THEN [fs |-> f, ret |-> [err |-> ErrNotFound, val |-> << >>]]
     ELSE IF SlugTaken(blogs, existing, updates)
     THEN [fs |-> f, ret |-> [err |-> ErrSlugExists, val |-> << >>]]
     ELSE IF renames /\ ~RenameOk(f, slug, updates.Slug[1])
     THEN [fs |-> f, ret |-> [err |-> ErrIO, val |-> << >>]]
     ELSE [fs |-> SeqSave(IF renames THEN RenameDir(f, slug, updates.Slug[1]) ELSE f,
                          updated, UpdateSaveSlug(slug, updated)),
           ret |-> [err |-> "", val |-> <<updated>>]]

SeqDelete(f, slug) ==
  IF HasSlug(loadAllBlogs(f), slug)
  THEN [fs |-> RemoveAll(f, slug), ret |-> [err |-> "", val |-> << >>]]
  ELSE [fs |-> f, ret |-> [err |-> ErrNotFound, val |-> << >>]]

\* the call of goroutine t run alone on the data root it found when it
\* acquired the lock, with the id and the time it drew
SeqCall(t) ==
  IF loc[t].op.kind = "CreateBlog"
  THEN SeqCreate(loc[t].pre, loc[t].op.blog, loc[t].blog.ID, loc[t].blog.Created)
  ELSE IF loc[t].op.kind = "UpdateBlogBySlug"
  THEN SeqUpdate(loc[t].pre, loc[t].op.slug, loc[t].op.updates, loc[t].blog.Updated)
  ELSE SeqDelete(loc[t].pre, loc[t].op.slug)

\* C23: whatever other calls were issued concurrently, when a CreateBlog,
\* UpdateBlogBySlug or DeleteBlogBySlug none of whose filesystem calls
\* failed returns, its result and the data root are those of running the
\* call alone on the data root it found when it acquired the lock; the calls
\* therefore act one after another in lock-acquisition order.
C23_WritersSerialized ==
  \A t \in Threads :
    (pc[t] = "unlock" /\ ~loc[t].fault) =>
      (fs = SeqCall(t).fs /\ loc[t].ret = SeqCall(t).ret)

\* a writer returns after changing the data root while the other goroutines
\* have had their calls too
C23_Witness ==
  \E t \in Threads :
    /\ pc[t] = "unlock" /\ ~loc[t].fault /\ Succeeded(t)
    /\ fs # loc[t].pre
    /\ loc[t].pre # EmptyFS
    /\ calls = MaxCalls

\* the posts of GetAllBlogs on the data root f that carry the slug s
PostsWithSlug(f, s) ==
  {i \in 1..Len(loadAllBlogs(f)) : loadAllBlogs(f)[i].Slug = s}

\* C24: when a CreateBlog resolves to the slug of an existing post it
\* succeeds all the same, and afterwards GetAllBlogs holds exactly one post
\* with that slug, carrying the id, title, content and timestamps of this
\* call.
C24_LastCreateWins ==
  \A t \in Threads :
    (/\ Returned(t, "CreateBlog") /\ ~loc[t].fault
     /\ PostsWithSlug(loc[t].pre, loc[t].blog.Slug) # {}) =>
      /\ Succeeded(t)
      /\ Cardinality(PostsWithSlug(fs, loc[t].blog.Slug)) = 1
      /\ \A i \in PostsWithSlug(fs, loc[t].blog.Slug) :
           LET b == loadAllBlogs(fs)[i]
           IN /\ b.ID = loc[t].blog.ID
              /\ b.Title = loc[t].blog.Title
              /\ b.Content = loc[t].blog.Content
              /\ b.Created = loc[t].blog.Created
              /\ b.Updated = loc[t].blog.Updated

\* ------------------------------------------------- slugs nobody carries
\* no decodable post directory of the data root f carries the slug s
NoPostCarries(f, s) ==
  \A n \in SubDirs : Decodable(f[n]) => f[n].meta[1].slug # s

\* C25: UpdateBlogBySlug and DeleteBlogBySlug called with a slug that no
\* decodable post carries return the not-found error and leave the data root
\* as it was, also when a directory of that name exists and holds one file
\* only or undecodable metadata.
C25_UnknownSlugNotFound ==
  \A t \in Threads :
    (/\ (Returned(t, "UpdateBlogBySlug") \/ Returned(t, "DeleteBlogBySlug"))
     /\ ~loc[t].fault
     /\ NoPostCarries(loc[t].pre, loc[t].op.slug)) =>
      (loc[t].ret.err = ErrNotFound /\ fs = loc[t].pre)

\* ------------------------------------------------ what an update changes
\* the post b is the post old with exactly the supplied fields of the change
\* set replaced (updatedAt left aside)
ChangedExactly(b, old, updates) ==
  /\ b.Title = IF updates.Title # Nil THEN updates.Title[1] ELSE old.Title
  /\ b.Content = IF updates.Content # Nil THEN updates.Content[1] ELSE old.Content
  /\ b.MetaName = IF updates.MetaName # Nil THEN updates.MetaName[1] ELSE old.MetaName
  /\ b.MetaDescription = IF updates.MetaDescription # Nil
                           THEN updates.MetaDescription[1] ELSE old.MetaDescription
  /\ b.Slug = IF updates.Slug # Nil THEN updates.Slug[1] ELSE old.Slug
  /\ b.Published = IF updates.Published # Nil
                     THEN updates.Published[1] ELSE old.Published
  /\ b.ID = old.ID
  /\ b.Created = old.Created
  /\ b.AuthorName = old.AuthorName
  /\ b.AuthorUsername = old.AuthorUsername

\* C26: after a successful UpdateBlogBySlug the returned post, and the post
\* of that id read back from disk, are the post as it was before the call
\* with exactly the supplied fields replaced (and updatedAt stamped): fields
\* not supplied, id, createdAt and the author fields keep their values.
C26_UpdateChangesSuppliedOnly ==
  \A t \in Threads :
    (Returned(t, "UpdateBlogBySlug") /\ Succeeded(t)) =>
      LET old == FindBySlug(PreBlogs(t), loc[t].op.slug)
          blogs == loadAllBlogs(fs)
      IN /\ ChangedExactly(loc[t].ret.val[1], old, loc[t].op.updates)
         /\ \E i \in 1..Len(blogs) :
              ChangedExactly(blogs[i], old, loc[t].op.updates)

\* ------------------------------------------- creating from supplied values
\* a post as a caller may hand it to CreateBlog: every field the caller can
\* set is either left empty or supplied
BareBlog == [ZeroBlog EXCEPT !.Title = <<"A">>, !.Content = "c1"]

FullBlog ==
  [BareBlog EXCEPT !.ID = 7, !.Created = 9, !.Updated = 8,
                   !.AuthorName = "Ann", !.AuthorUsername = "ann",
                   !.MetaName = <<"M">>, !.MetaDescription = <<"D">>,
                   !.Slug = SlugB, !.Published = TRUE]

SuppliedFields ==
  {"ID", "Created", "Updated", "AuthorName", "AuthorUsername", "MetaName",
   "MetaDescription", "Slug", "Published"}

\* the bare post, the full post, and each of them with one field taken from
\* the other
SuppliedBlogs ==
  {BareBlog, FullBlog}
    \cup {[BareBlog EXCEPT ![k] = FullBlog[k]] : k \in SuppliedFields}
    \cup {[FullBlog EXCEPT ![k] = BareBlog[k]] : k \in SuppliedFields}

NextSupplied ==
  \E t \in Threads :
    \/ \E blog \in SuppliedBlogs : CreateBlogLock(t, blog)
    \/ SaveMkdirAll(t)
    \/ SaveWriteMetadata(t)
    \/ SaveWriteContent(t)
    \/ WriteUnlock(t)

SpecSupplied == Init /\ [][NextSupplied]_vars

\* C27: whatever the caller supplies, the post CreateBlog works on has an id
\* no post on disk carries and not the supplied one, createdAt and updatedAt
\* equal to the time of the call, author name, author username, meta title
\* and meta description equal to the supplied value when that is non-empty
\* and to the default when it is empty, the slug equal to the supplied slug
\* when that is non-empty and to slugify(title) when it is empty, and title,
\* content and published as supplied.
C27_CreateFillsOnlyEmpty ==
  \A t \in Threads :
    (Writing(t) /\ loc[t].op.kind = "CreateBlog") =>
      LET in == loc[t].op.blog
          b == loc[t].blog
      IN /\ b.ID # in.ID
         /\ \A i \in 1..Len(PreBlogs(t)) : PreBlogs(t)[i].ID # b.ID
         /\ b.Created = clock /\ b.Updated = clock
         /\ b.AuthorName = IF in.AuthorName = "" THEN "John Doe" ELSE in.AuthorName
         /\ b.AuthorUsername =
              IF in.AuthorUsername = "" THEN "johndoe" ELSE in.AuthorUsername
         /\ b.MetaName = IF in.MetaName = << >> THEN in.Title ELSE in.MetaName
         /\ b.MetaDescription =
              IF in.MetaDescription = << >> THEN ReadAbout(in.Title)
              ELSE in.MetaDescription
         /\ b.Slug = IF in.Slug = << >> THEN slugify(in.Title) ELSE in.Slug
         /\ b.Title = in.Title /\ b.Content = in.Content
         /\ b.Published = in.Published
         /\ Returned(t, "CreateBlog") /\ Succeeded(t) => loc[t].ret.val = <<b>>

\* a CreateBlog handed a post with every field supplied has returned it
C27_Witness ==
  \E t \in Threads :
    /\ Returned(t, "CreateBlog") /\ Succeeded(t)
    /\ loc[t].op.blog = FullBlog
    /\ loc[t].ret.val[1].Slug = SlugB
    /\ loc[t].ret.val[1].AuthorName = "Ann"

\* ------------------------------------------------- a second store instance
\* every timestamp string stored under the data root f parses
WellFormedTimes(f) == \A n \in SubDirs : NowCalls(f[n]) = 0

\* the times at which a second store instance may be reading
FreshTimes == 0..4

\* what a read returns from a store instance that NewFileBlogStore has just
\* made on the data root f, its clock showing now
FreshRead(f, op, now) ==
  LET blogs == SortByCreated(ScanDirs(f, 1, now))
  IN IF ScanPanics(f) THEN [err |-> ErrPanic, val |-> << >>]
     ELSE IF op.kind = "GetAllBlogs" THEN [err |-> "", val |-> blogs]
     ELSE IF HasSlug(blogs, op.slug)
     THEN [err |-> "", val |-> <<FindBySlug(blogs, op.slug)>>]
     ELSE [err |-> ErrNotFound, val |-> << >>]

C29_DeleteRemovesOnlyThat ==
  \A t \in Threads :
    (Returned(t, "DeleteBlogBySlug") /\ Succeeded(t)) =>
      /\ ~HasSlug(loadAllBlogs(fs), loc[t].op.slug)
      /\ \A i \in 1..Len(PreBlogs(t)) :
           PreBlogs(t)[i].Slug # loc[t].op.slug =>
             \E j \in 1..Len(loadAllBlogs(fs)) : loadAllBlogs(fs)[j] = PreBlogs(t)[i]

\* ------------------------------------------------------------ termination
\* the steps of a call that has acquired the lock: each is a filesystem call
\* or a return, and a goroutine that can take one is eventually scheduled
Continue(t) ==
  \/ ReadScan(t)
  \/ ReadUnlock(t)
  \/ SaveMkdirAll(t)
  \/ SaveWriteMetadata(t)
  \/ SaveWriteContent(t)
  \/ UpdateLoad(t)
  \/ UpdateRename(t)
  \/ DeleteRemove(t)
  \/ WriteUnlock(t)

SpecLive == Init /\ [][Next]_vars /\ \A t \in Threads : WF_vars(Continue(t))

LockFree == mu.writer = 0 /\ mu.readers = {}

\* the lock is held by exactly the goroutines that are inside a call: a
\* writer alone or readers only, and nobody holds it twice
HeldByCallers ==
  \A t \in Threads :
    /\ (mu.writer = t) = Writing(t)
    /\ (t \in mu.readers) = Reading(t)
    /\ ~(Writing(t) /\ Reading(t))

\* C30: the lock is held exactly by the goroutines inside a store call and
\* by none of them twice, and from some point on every goroutine has
\* returned from its calls, on whatever path (success, not-found, slug
\* conflict, I/O error), and the lock is free for good.
C30_CallsCompleteLockFree ==
  /\ []HeldByCallers
  /\ <>[](LockFree /\ \A t \in Threads : pc[t] = "idle")

\* a writer is about to return a slug conflict while the last call of the
\* run has been issued
C30_Witness ==
  \E t \in Threads :
    /\ pc[t] = "unlock" /\ mu.writer = t
    /\ loc[t].ret.err \in {ErrNotFound, ErrSlugExists, ErrIO}
    /\ calls = MaxCalls

====
